---- MODULE Spec2Model ----
(***************************************************************************)
(* Model of sqlite_explorer.py: the four tools of the SQLite Explorer      *)
(* server (read_query, list_tables, describe_table, health_check), the     *)
(* SQLiteConnection scope they share, and the string functions read_query  *)
(* uses to validate and rewrite caller-supplied SQL text.                  *)
(*                                                                         *)
(* SQL text is a sequence of one-character strings, so that strip,         *)
(* endswith, lower, startswith and the substring test are computed the     *)
(* way the Python code computes them.                                      *)
(***************************************************************************)
EXTENDS Integers, Sequences, FiniteSets, TLC

VARIABLES db, calls, openConns

vars == <<db, calls, openConns>>

(***************************************************************************)
(* Bounds of the model.                                                    *)
(***************************************************************************)
NumCalls == 2
MaxBody == 4

Calls == 1..NumCalls

(***************************************************************************)
(* Python string functions over character sequences.                       *)
(***************************************************************************)
Whitespace == {" "}

UpperChars == <<"A","B","C","D","E","F","G","H","I","J","K","L","M",
                "N","O","P","Q","R","S","T","U","V","W","X","Y","Z">>
LowerChars == <<"a","b","c","d","e","f","g","h","i","j","k","l","m",
                "n","o","p","q","r","s","t","u","v","w","x","y","z">>

LowerChar(ch) ==
    IF \E i \in DOMAIN UpperChars : UpperChars[i] = ch
    THEN LowerChars[CHOOSE i \in DOMAIN UpperChars : UpperChars[i] = ch]
    ELSE ch

lower(s) == [i \in DOMAIN s |-> LowerChar(s[i])]

RECURSIVE lstrip(_)
lstrip(s) ==
    IF s # <<>> /\ Head(s) \in Whitespace THEN lstrip(Tail(s)) ELSE s

RECURSIVE rstrip(_)
rstrip(s) ==
    IF s # <<>> /\ s[Len(s)] \in Whitespace
    THEN rstrip(SubSeq(s, 1, Len(s) - 1))
    ELSE s

strip(s) == rstrip(lstrip(s))

startswith(s, prefix) ==
    /\ Len(prefix) <= Len(s)
    /\ SubSeq(s, 1, Len(prefix)) = prefix

endswith(s, suffix) ==
    /\ Len(suffix) <= Len(s)
    /\ SubSeq(s, Len(s) - Len(suffix) + 1, Len(s)) = suffix

contains(s, sub) ==
    \E i \in 1..(Len(s) - Len(sub) + 1) : SubSeq(s, i, i + Len(sub) - 1) = sub

Digits == <<"0","1","2","3","4","5","6","7","8","9">>

RECURSIVE StrNat(_)
StrNat(n) ==
    IF n < 10 THEN <<Digits[n + 1]>>
    ELSE StrNat(n \div 10) \o <<Digits[(n % 10) + 1]>>

\* str(int)
StrInt(n) == IF n < 0 THEN <<"-">> \o StrNat(0 - n) ELSE StrNat(n)

(***************************************************************************)
(* read_query: cleaning and validation of the query text.                  *)
(***************************************************************************)
kSelect == <<"s","e","l","e","c","t">>
kWith == <<"w","i","t","h">>
kLimit == <<"l","i","m","i","t">>

\* CleanQuery without the strip that follows the removal of the ';'.
CleanQueryNoRestrip(query) ==
    LET q == strip(query)
    IN IF endswith(q, <<";">>) THEN SubSeq(q, 1, Len(q) - 1) ELSE q

\* query = query.strip(); if query.endswith(';'): query = query[:-1].strip()
CleanQuery(query) ==
    LET q == strip(query)
    IN IF endswith(q, <<";">>) THEN strip(SubSeq(q, 1, Len(q) - 1)) ELSE q

\* The loop of contains_multiple_statements from character i on, with the
\* two quote flags as they stand before character i.
RECURSIVE ScanFrom(_, _, _, _)
ScanFrom(sql, i, in_single_quote, in_double_quote) ==
    IF i > Len(sql) THEN FALSE
    ELSE IF sql[i] = "'" /\ ~in_double_quote
         THEN ScanFrom(sql, i + 1, ~in_single_quote, in_double_quote)
    ELSE IF sql[i] = "\"" /\ ~in_single_quote
         THEN ScanFrom(sql, i + 1, in_single_quote, ~in_double_quote)
    ELSE IF sql[i] = ";" /\ ~in_single_quote /\ ~in_double_quote
         THEN TRUE
    ELSE ScanFrom(sql, i + 1, in_single_quote, in_double_quote)

\* The same loop with the ';' branch looking at in_single_quote alone.
RECURSIVE ScanFromSingleOnly(_, _, _, _)
ScanFromSingleOnly(sql, i, in_single_quote, in_double_quote) ==
    IF i > Len(sql) THEN FALSE
    ELSE IF sql[i] = "'" /\ ~in_double_quote
         THEN ScanFromSingleOnly(sql, i + 1, ~in_single_quote, in_double_quote)
    ELSE IF sql[i] = "\"" /\ ~in_single_quote
         THEN ScanFromSingleOnly(sql, i + 1, in_single_quote, ~in_double_quote)
    ELSE IF sql[i] = ";" /\ ~in_single_quote
         THEN TRUE
    ELSE ScanFromSingleOnly(sql, i + 1, in_single_quote, in_double_quote)

contains_multiple_statements_single_only(sql) ==
    ScanFromSingleOnly(sql, 1, FALSE, FALSE)

contains_multiple_statements(sql) == ScanFrom(sql, 1, FALSE, FALSE)

\* any(query_lower.startswith(prefix) for prefix in ('select', 'with'))
AllowedPrefix(query_lower) ==
    startswith(query_lower, kSelect) \/ startswith(query_lower, kWith)

\* ValidateQuery without the statement-type test of lines 100-102.
ValidateQueryNoTypeCheck(query) ==
    LET q == CleanQuery(query)
    IN [sql |-> q,
        verdict |->
            IF contains_multiple_statements(q) THEN "MultipleStatements"
            ELSE "accepted"]

\* Lines 77-102: the cleaned text and the verdict on it.
ValidateQuery(query) ==
    LET q == CleanQuery(query)
    IN [sql |-> q,
        verdict |->
            IF contains_multiple_statements(q) THEN "MultipleStatements"
            ELSE IF ~AllowedPrefix(lower(q)) THEN "UnsupportedStatementType"
            ELSE "accepted"]

\* Lines 111-112: the text handed to cursor.execute.
LimitedQuery(query, row_limit) ==
    IF ~contains(lower(query), kLimit)
    THEN query \o <<" ","L","I","M","I","T"," ">> \o StrInt(row_limit)
    ELSE query

(***************************************************************************)
(* Inputs.                                                                 *)
(***************************************************************************)
Heads == { <<>>,
           <<"S","e","l","e","c","t">>,
           <<" ","W","i","t","h">>,
           <<"D","E","L","E","T","E">> }

BodyFrags == { <<";">>, <<"'">>, <<"\"">>, <<" ">>, <<"a">>,
               <<"L","i","m","i","t">> }

RECURSIVE Flatten(_)
Flatten(fs) == IF fs = <<>> THEN <<>> ELSE Head(fs) \o Flatten(Tail(fs))

Bodies == UNION { [1..n -> BodyFrags] : n \in 0..MaxBody }

Queries == { h \o Flatten(b) : h \in Heads, b \in Bodies }

\* The queries of the concurrent specification: one accepted, one with two
\* statements, one of an unsupported type.
SmallQueries == { <<"S","e","l","e","c","t">>,
                  <<"S","e","l","e","c","t",";","a">>,
                  <<"D","E","L","E","T","E">> }

\* row_limit: int = 1000
DefaultRowLimit == 1000

RowLimits == {1, DefaultRowLimit}

TableNames == {"t"}

(***************************************************************************)
(* The database file and the engine, as the tools see them.                *)
(*   exists   : DB_PATH.exists()                                           *)
(*   openable : sqlite3.connect(DB_PATH) succeeds (it creates the file     *)
(*              when it is absent and the path can be written)             *)
(*   tables   : the names of kind 'table' in sqlite_master                 *)
(***************************************************************************)
DbStates ==
    { d \in [exists : BOOLEAN, openable : BOOLEAN, tables : {{}, {"t"}}] :
        d.exists \/ d.tables = {} }

IntV(n) == [t |-> "int", n |-> n, s |-> <<>>]
StrV(s) == [t |-> "str", n |-> 0, s |-> s]
NullV == [t |-> "null", n |-> 0, s |-> <<>>]

\* The rows of PRAGMA table_info(t) for
\*   CREATE TABLE t (id INTEGER PRIMARY KEY, name TEXT NOT NULL DEFAULT 'x')
TableInfoRows ==
    << [cid |-> IntV(0), name |-> StrV(<<"i","d">>),
        type |-> StrV(<<"I","N","T","E","G","E","R">>),
        notnull |-> IntV(0), dflt_value |-> NullV, pk |-> IntV(1)],
       [cid |-> IntV(1), name |-> StrV(<<"n","a","m","e">>),
        type |-> StrV(<<"T","E","X","T">>),
        notnull |-> IntV(1), dflt_value |-> StrV(<<"'","x","'">>),
        pk |-> IntV(0)] >>

\* str(value) of an engine value
StrValue(v) == IF v.t = "int" THEN StrInt(v.n) ELSE v.s

\* Lines 189-196: dict(row), then None -> "" and everything else -> str(value)
ConvertRow(row) ==
    [key \in DOMAIN row |->
        IF row[key].t = "null" THEN <<>> ELSE StrValue(row[key])]

(***************************************************************************)
(* One call of a tool.                                                     *)
(*   outcome: "returned", or the failure the caller sees:                  *)
(*     DatabaseMissing          FileNotFoundError (lines 74, 134, 167)     *)
(*     MultipleStatements       ValueError (line 97)                       *)
(*     UnsupportedStatementType ValueError (line 102)                      *)
(*     TableNotFound            ValueError (line 180)                      *)
(*     ExecutionError           ValueError("SQLite error: ...")            *)
(*     RawEngineError           a sqlite3.Error that nothing caught        *)
(***************************************************************************)
IdleCall ==
    [op |-> "none", pc |-> "idle", query |-> <<>>, sql |-> <<>>,
     rowLimit |-> 0, table |-> "", conn |-> "none", existsSeen |-> "unchecked",
     found |-> "unchecked", failed |-> FALSE, pending |-> "none",
     outcome |-> "none", executed |-> <<>>, columns |-> <<>>, report |-> <<>>]

Statement(kind, text, arg) == [kind |-> kind, text |-> text, arg |-> arg]

\* The value the engine returns for SELECT 1 as test.
TestValue == 1

HealthyReport ==
    [status |-> "healthy", database |-> "DB_PATH",
     message |-> "SQLite Explorer server is running properly"]

TestFailedReport ==
    [status |-> "error", database |-> "DB_PATH",
     message |-> "Database test query failed"]

FailedReport ==
    [status |-> "error", database |-> "DB_PATH",
     message |-> "Health check failed"]

\* NextStep with the validation of read_query moved inside the with block.
NextStepValidateInScope(op, pc) ==
    CASE pc = "exists" -> "connect"
      [] pc = "connect" ->
            IF op = "read_query" THEN "validate"
            ELSE IF op = "describe_table" THEN "check" ELSE "execute"
      [] pc = "validate" -> "execute"
      [] pc = "check" -> "table_info"
      [] pc = "table_info" -> "fetch"
      [] pc = "execute" -> "fetch"
      [] pc = "fetch" -> "release"
      [] OTHER -> "done"

\* The step that follows a step that succeeded.
NextStep(op, pc) ==
    CASE pc = "exists" -> IF op = "read_query" THEN "validate" ELSE "connect"
      [] pc = "validate" -> "connect"
      [] pc = "connect" -> IF op = "describe_table" THEN "check" ELSE "execute"
      [] pc = "check" -> "table_info"
      [] pc = "table_info" -> "fetch"
      [] pc = "execute" -> "fetch"
      [] pc = "fetch" -> "release"
      [] OTHER -> "done"

\* What an sqlite3.Error raised by execute or a fetch becomes inside the
\* with block: the three tools wrap it (lines 123-124, 148-149, 200-201),
\* health_check lets it travel to its except clause.
InScopeError(op) ==
    IF op = "health_check" THEN "RawEngineError" ELSE "ExecutionError"

\* SeenByCaller without the except clause of health_check.
SeenByCallerUncaught(op, exc) == exc

\* What the caller gets when exception exc leaves the body of tool op:
\* health_check catches every Exception (line 224), the others catch nothing.
SeenByCaller(op, exc) == IF op = "health_check" THEN "returned" ELSE exc

\* The call after exception exc is raised at its current step: __exit__
\* runs first when the step is inside the with block.
Raised(r, exc) ==
    IF r.conn = "open"
    THEN [r EXCEPT !.pending = exc, !.pc = "release"]
    ELSE [r EXCEPT !.outcome = SeenByCaller(r.op, exc), !.pc = "done",
                   !.report = IF r.op = "health_check" /\ exc # "returned"
                              THEN <<FailedReport>> ELSE @]

(***************************************************************************)
(* The tools, one action per step of a call.                               *)
(***************************************************************************)
\* A call starts: the arguments are bound (lines 56-61, 127, 152, 205).
InvokeReadQuery(c) ==
    /\ calls[c].pc = "idle"
    /\ \E q \in SmallQueries :
        calls' = [calls EXCEPT ![c] =
            [IdleCall EXCEPT !.op = "read_query", !.pc = "exists",
                             !.query = q, !.sql = q,
                             !.rowLimit = DefaultRowLimit]]
    /\ UNCHANGED <<db, openConns>>

InvokeAnyReadQuery(c) ==
    /\ calls[c].pc = "idle"
    /\ \E q \in Queries, n \in RowLimits :
        calls' = [calls EXCEPT ![c] =
            [IdleCall EXCEPT !.op = "read_query", !.pc = "exists",
                             !.query = q, !.sql = q, !.rowLimit = n]]
    /\ UNCHANGED <<db, openConns>>

InvokeListTables(c) ==
    /\ calls[c].pc = "idle"
    /\ calls' = [calls EXCEPT ![c] =
            [IdleCall EXCEPT !.op = "list_tables", !.pc = "exists"]]
    /\ UNCHANGED <<db, openConns>>

InvokeDescribeTable(c) ==
    /\ calls[c].pc = "idle"
    /\ \E name \in TableNames :
        calls' = [calls EXCEPT ![c] =
            [IdleCall EXCEPT !.op = "describe_table", !.pc = "exists",
                             !.table = name]]
    /\ UNCHANGED <<db, openConns>>

\* health_check has no DB_PATH.exists() test: it goes straight to the with.
InvokeHealthCheck(c) ==
    /\ calls[c].pc = "idle"
    /\ calls' = [calls EXCEPT ![c] =
            [IdleCall EXCEPT !.op = "health_check", !.pc = "connect"]]
    /\ UNCHANGED <<db, openConns>>

\* if not DB_PATH.exists(): raise FileNotFoundError (lines 73, 133, 166)
ExistsCheck(c) ==
    LET r == calls[c]
        seen == [r EXCEPT !.existsSeen = IF db.exists THEN "yes" ELSE "no"]
    IN /\ r.pc = "exists"
       /\ calls' = [calls EXCEPT ![c] =
                      IF db.exists
                      THEN [seen EXCEPT !.pc = NextStep(r.op, "exists")]
                      ELSE Raised(seen, "DatabaseMissing")]
       /\ UNCHANGED <<db, openConns>>

\* Lines 77-104 of read_query.
Validate(c) ==
    LET r == calls[c]
        v == ValidateQuery(r.query)
        cleaned == [r EXCEPT !.sql = v.sql]
    IN /\ r.pc = "validate"
       /\ calls' = [calls EXCEPT ![c] =
                      IF v.verdict = "accepted"
                      THEN [cleaned EXCEPT !.pc = NextStep(r.op, "validate")]
                      ELSE Raised(cleaned, v.verdict)]
       /\ UNCHANGED <<db, openConns>>

\* SQLiteConnection.__enter__ (lines 46-49), entered by the with statements
\* of lines 106, 136, 169 and 208.
Connect(c) ==
    LET r == calls[c]
    IN /\ r.pc = "connect"
       /\ IF db.openable
          THEN /\ calls' = [calls EXCEPT ![c] =
                              [r EXCEPT !.conn = "open",
                                        !.pc = NextStep(r.op, "connect")]]
               /\ openConns' = openConns + 1
               /\ db' = [db EXCEPT !.exists = TRUE]
          ELSE /\ calls' = [calls EXCEPT ![c] =
                              Raised([r EXCEPT !.failed = TRUE], "RawEngineError")]
               /\ UNCHANGED <<db, openConns>>

\* The statement a tool executes at step "execute".
StatementOf(r) ==
    CASE r.op = "read_query" ->
            Statement("query", LimitedQuery(r.sql, r.rowLimit), "")
      [] r.op = "list_tables" -> Statement("catalog_list", <<>>, "")
      [] OTHER -> Statement("select_1", <<>>, "")

\* cursor.execute of lines 114, 140 and 210: the engine runs the statement or
\* raises an sqlite3.Error.
Execute(c) ==
    LET r == calls[c]
        sent == [r EXCEPT !.executed = Append(@, StatementOf(r))]
    IN /\ r.pc = "execute"
       /\ \E ok \in BOOLEAN :
            calls' = [calls EXCEPT ![c] =
                IF ok
                THEN [sent EXCEPT !.pc = NextStep(r.op, "execute")]
                ELSE Raised([sent EXCEPT !.failed = TRUE], InScopeError(r.op))]
       /\ UNCHANGED <<db, openConns>>

\* CheckTable without the raise of line 180.
CheckTableNoRaise(c) ==
    LET r == calls[c]
        sent == [r EXCEPT !.executed =
                    Append(@, Statement("catalog_lookup", <<>>, r.table))]
    IN /\ r.pc = "check"
       /\ \E ok \in BOOLEAN :
            calls' = [calls EXCEPT ![c] =
                IF ~ok
                THEN Raised([sent EXCEPT !.failed = TRUE], InScopeError(r.op))
                ELSE [sent EXCEPT !.found = IF r.table \in db.tables
                                            THEN "yes" ELSE "no",
                                  !.pc = NextStep(r.op, "check")]]
       /\ UNCHANGED <<db, openConns>>

\* Lines 174-180 of describe_table: the catalog lookup bound to table_name,
\* fetchone, and the raise when no row came back.
CheckTable(c) ==
    LET r == calls[c]
        sent == [r EXCEPT !.executed =
                    Append(@, Statement("catalog_lookup", <<>>, r.table))]
    IN /\ r.pc = "check"
       /\ \E ok \in BOOLEAN :
            calls' = [calls EXCEPT ![c] =
                IF ~ok
                THEN Raised([sent EXCEPT !.failed = TRUE], InScopeError(r.op))
                ELSE IF r.table \in db.tables
                THEN [sent EXCEPT !.found = "yes",
                                  !.pc = NextStep(r.op, "check")]
                ELSE Raised([sent EXCEPT !.found = "no"], "TableNotFound")]
       /\ UNCHANGED <<db, openConns>>

\* cursor.execute(f"PRAGMA table_info({table_name})"), line 183.
TableInfo(c) ==
    LET r == calls[c]
        sent == [r EXCEPT !.executed =
                    Append(@, Statement("table_info", <<>>, r.table))]
    IN /\ r.pc = "table_info"
       /\ \E ok \in BOOLEAN :
            calls' = [calls EXCEPT ![c] =
                IF ok
                THEN [sent EXCEPT !.pc = NextStep(r.op, "table_info")]
                ELSE Raised([sent EXCEPT !.failed = TRUE], InScopeError(r.op))]
       /\ UNCHANGED <<db, openConns>>

\* What a tool makes of the rows it fetched.
Fetched(r) ==
    CASE r.op = "describe_table" ->
            [r EXCEPT !.columns =
                IF r.table \in db.tables
                THEN [i \in DOMAIN TableInfoRows |-> ConvertRow(TableInfoRows[i])]
                ELSE <<>>]
      [] r.op = "health_check" ->
            [r EXCEPT !.report = IF TestValue = 1 THEN <<HealthyReport>>
                                 ELSE <<TestFailedReport>>]
      [] OTHER -> r

\* fetchall / fetchone of lines 117-119, 146, 184 and 211, and the return
\* statement that follows: the rows arrive or the engine raises. The rows of
\* read_query and list_tables are handed on as the engine gave them.
Fetch(c) ==
    LET r == calls[c]
    IN /\ r.pc = "fetch"
       /\ \E ok \in BOOLEAN :
            calls' = [calls EXCEPT ![c] =
                IF ok
                THEN [Fetched(r) EXCEPT !.pending = "returned",
                                        !.pc = NextStep(r.op, "fetch")]
                ELSE Raised([r EXCEPT !.failed = TRUE], InScopeError(r.op))]
       /\ UNCHANGED <<db, openConns>>

\* Release with the connection closed only when the body returned.
ReleaseOnSuccessOnly(c) ==
    LET r == calls[c]
        closes == r.pending = "returned"
        out == SeenByCaller(r.op, r.pending)
    IN /\ r.pc = "release"
       /\ calls' = [calls EXCEPT ![c] =
                      [r EXCEPT !.conn = IF closes THEN "closed" ELSE @,
                                !.pc = "done",
                                !.outcome = out,
                                !.report = IF r.op = "health_check"
                                              /\ r.pending # "returned"
                                           THEN <<FailedReport>> ELSE @]]
       /\ openConns' = IF closes THEN openConns - 1 ELSE openConns
       /\ UNCHANGED db

\* SQLiteConnection.__exit__ (lines 51-53), then what left the with block
\* reaches the caller (or, in health_check, the except clause of line 224).
Release(c) ==
    LET r == calls[c]
        out == SeenByCaller(r.op, r.pending)
    IN /\ r.pc = "release"
       /\ calls' = [calls EXCEPT ![c] =
                      [r EXCEPT !.conn = "closed",
                                !.pc = "done",
                                !.outcome = out,
                                !.report = IF r.op = "health_check"
                                              /\ r.pending # "returned"
                                           THEN <<FailedReport>> ELSE @]]
       /\ openConns' = openConns - 1
       /\ UNCHANGED db

\* The caller has the result; the slot serves the next call.
Return(c) ==
    /\ calls[c].pc = "done"
    /\ calls' = [calls EXCEPT ![c] = IdleCall]
    /\ UNCHANGED <<db, openConns>>

\* The file is created, removed, replaced or made unreadable by someone else.
EnvChange ==
    /\ db' \in DbStates \ {db}
    /\ UNCHANGED <<calls, openConns>>

Init ==
    /\ db \in DbStates
    /\ calls = [c \in Calls |-> IdleCall]
    /\ openConns = 0

Next ==
    \/ \E c \in Calls : InvokeReadQuery(c)
    \/ \E c \in Calls : InvokeListTables(c)
    \/ \E c \in Calls : InvokeDescribeTable(c)
    \/ \E c \in Calls : InvokeHealthCheck(c)
    \/ \E c \in Calls : ExistsCheck(c)
    \/ \E c \in Calls : Validate(c)
    \/ \E c \in Calls : Connect(c)
    \/ \E c \in Calls : Execute(c)
    \/ \E c \in Calls : CheckTable(c)
    \/ \E c \in Calls : TableInfo(c)
    \/ \E c \in Calls : Fetch(c)
    \/ \E c \in Calls : Release(c)
    \/ \E c \in Calls : Return(c)
    \/ EnvChange

Spec == Init /\ [][Next]_vars

(***************************************************************************)
(* One read_query call on any text of Queries, the file either in place    *)
(* or missing and left alone during the call.                              *)
(***************************************************************************)
InitQ ==
    /\ db \in { d \in DbStates : d.openable /\ (d.exists => d.tables # {}) }
    /\ calls = [c \in Calls |-> IdleCall]
    /\ openConns = 0

NextQ ==
    \/ InvokeAnyReadQuery(1)
    \/ ExistsCheck(1)
    \/ Validate(1)
    \/ Connect(1)
    \/ Execute(1)
    \/ Fetch(1)
    \/ Release(1)

SpecQ == InitQ /\ [][NextQ]_vars

(***************************************************************************)
(* Vocabulary of the properties.                                           *)
(***************************************************************************)
Quotes == {"'", "\""}

\* The position of the quote that closes the literal opened at position i
\* by quote character q, or Len(s) + 1 when the literal is never closed.
ClosePos(s, i, q) ==
    IF \E j \in (i + 1)..Len(s) : s[j] = q
    THEN CHOOSE j \in (i + 1)..Len(s) :
            s[j] = q /\ \A k \in (i + 1)..(j - 1) : s[k] # q
    ELSE Len(s) + 1

\* The positions from i on that lie outside every quoted literal, a literal
\* running from its opening quote to the next quote of the same style.
RECURSIVE TopLevelPositions(_, _)
TopLevelPositions(s, i) ==
    IF i > Len(s) THEN {}
    ELSE IF s[i] \in Quotes
         THEN TopLevelPositions(s, ClosePos(s, i, s[i]) + 1)
         ELSE {i} \cup TopLevelPositions(s, i + 1)

HasTopLevelSeparator(s) == \E i \in TopLevelPositions(s, 1) : s[i] = ";"

RECURSIVE EndsInsideLiteralFrom(_, _)
EndsInsideLiteralFrom(s, i) ==
    IF i > Len(s) THEN FALSE
    ELSE IF s[i] \in Quotes
         THEN IF ClosePos(s, i, s[i]) > Len(s) THEN TRUE
              ELSE EndsInsideLiteralFrom(s, ClosePos(s, i, s[i]) + 1)
         ELSE EndsInsideLiteralFrom(s, i + 1)

EndsInsideLiteral(s) == EndsInsideLiteralFrom(s, 1)

\* The text trimmed, and one trailing ';' dropped.
TrimmedOneSeparatorDropped(q) ==
    IF strip(q) # <<>> /\ strip(q)[Len(strip(q))] = ";"
    THEN SubSeq(strip(q), 1, Len(strip(q)) - 1)
    ELSE strip(q)

StartsWithSelectOrWith(q) ==
    \/ startswith(lower(strip(q)), kSelect)
    \/ startswith(lower(strip(q)), kWith)

IsIdentChar(ch) ==
    \/ \E i \in DOMAIN LowerChars : LowerChars[i] = ch \/ UpperChars[i] = ch
    \/ \E i \in DOMAIN Digits : Digits[i] = ch
    \/ ch = "_"

\* The statement has a LIMIT clause of its own: the word LIMIT, in any case,
\* outside every quoted literal and not part of a longer identifier.
DeclaresLimit(s) ==
    \E i \in 1..(Len(s) - 4) :
        /\ lower(SubSeq(s, i, i + 4)) = kLimit
        /\ \A k \in i..(i + 4) : k \in TopLevelPositions(s, 1)
        /\ i > 1 => ~IsIdentChar(s[i - 1])
        /\ i + 4 < Len(s) => ~IsIdentChar(s[i + 5])

ReadCalls == { c \in Calls : calls[c].op = "read_query" }

\* The call is past the validation of lines 77-102.
Validated(c) ==
    /\ calls[c].op = "read_query"
    /\ calls[c].existsSeen = "yes"
    /\ calls[c].pc \notin {"exists", "validate"}

VerdictOf(c) ==
    IF calls[c].outcome \in {"MultipleStatements", "UnsupportedStatementType"}
    THEN calls[c].outcome ELSE "accepted"

InFlight == { c \in Calls : calls[c].pc \notin {"idle", "done"} }

(***************************************************************************)
(* C1: once the file is known to exist, read_query rejects the text with   *)
(* MultipleStatements exactly when the text, trimmed and with one trailing *)
(* ';' dropped, has a ';' outside every single- and double-quoted literal, *)
(* a quote of the other style inside a literal not ending it.              *)
(***************************************************************************)
C1_MultipleStatementsIffTopLevelSeparator ==
    \A c \in Calls :
        Validated(c) =>
            ( calls[c].outcome = "MultipleStatements"
              <=> HasTopLevelSeparator(TrimmedOneSeparatorDropped(calls[c].query)) )

\* A statement was accepted and ran although it has a ';': the ';' is in a
\* literal that also holds a quote of the other style.
C1_Witness ==
    \E c \in Calls :
        /\ Validated(c)
        /\ calls[c].pc = "done"
        /\ calls[c].outcome = "returned"
        /\ contains(calls[c].query, <<"\"", ";">>)
        /\ contains(calls[c].query, <<"'", "\"">>)

(***************************************************************************)
(* C2, as stated: every text that does not start with select or with is    *)
(* rejected with UnsupportedStatementType and never executed.              *)
(***************************************************************************)
C2_Original ==
    \A c \in ReadCalls :
        ( /\ calls[c].pc = "done"
          /\ calls[c].existsSeen = "yes"
          /\ ~StartsWithSelectOrWith(calls[c].query) )
        => ( /\ calls[c].outcome = "UnsupportedStatementType"
             /\ calls[c].executed = <<>> )

(***************************************************************************)
(* C2, amended: a text that does not start with select or with is never    *)
(* executed and is rejected: with DatabaseMissing when the file is absent, *)
(* else with MultipleStatements when the cleaned text has a top-level ';', *)
(* else with UnsupportedStatementType.                                     *)
(***************************************************************************)
C2_NonSelectRejectedUnexecuted ==
    \A c \in ReadCalls :
        ~StartsWithSelectOrWith(calls[c].query) =>
            /\ calls[c].executed = <<>>
            /\ calls[c].conn = "none"
            /\ calls[c].pc \in {"exists", "validate", "done"}
            /\ calls[c].pc = "done" =>
                 calls[c].outcome =
                    IF calls[c].existsSeen = "no" THEN "DatabaseMissing"
                    ELSE IF HasTopLevelSeparator(
                                TrimmedOneSeparatorDropped(calls[c].query))
                         THEN "MultipleStatements"
                         ELSE "UnsupportedStatementType"

C2_Witness ==
    \E c \in ReadCalls :
        /\ calls[c].pc = "done"
        /\ startswith(calls[c].query, <<"D","E","L","E","T","E">>)
        /\ calls[c].outcome = "UnsupportedStatementType"

(***************************************************************************)
(* C3: the statement handed to the engine is the cleaned statement         *)
(* followed by ' LIMIT <row_limit>' whenever the statement declares no     *)
(* LIMIT clause of its own, wherever else the letters 'limit' may occur,   *)
(* and the cleaned statement unchanged when it declares one.               *)
(***************************************************************************)
C3_LimitAppliedUnlessDeclared ==
    \A c \in ReadCalls :
        calls[c].executed # <<>> =>
            calls[c].executed[1].text =
                IF DeclaresLimit(calls[c].sql)
                THEN calls[c].sql
                ELSE calls[c].sql \o <<" ","L","I","M","I","T"," ">>
                                 \o StrInt(calls[c].rowLimit)

(***************************************************************************)
(* C4, as stated: for a text q that does not end in ';', q and q;          *)
(* validate alike and execute the same text, and q;; is rejected with      *)
(* MultipleStatements.                                                     *)
(***************************************************************************)
SameAsWithSeparator(c) ==
    LET q == calls[c].query
        v == ValidateQuery(q \o <<";">>)
    IN /\ v.verdict = VerdictOf(c)
       /\ v.sql = calls[c].sql
       /\ calls[c].executed # <<>> =>
            calls[c].executed[1].text = LimitedQuery(v.sql, calls[c].rowLimit)

NoTrailingSeparator(c) == ~endswith(strip(calls[c].query), <<";">>)

C4_Original ==
    \A c \in Calls :
        (Validated(c) /\ NoTrailingSeparator(c)) =>
            /\ SameAsWithSeparator(c)
            /\ ValidateQuery(calls[c].query \o <<";", ";">>).verdict
                    = "MultipleStatements"

(***************************************************************************)
(* C4, amended: for a text q that does not end in ';', q and q; validate   *)
(* alike and execute the same text; q;; is rejected with                   *)
(* MultipleStatements unless q ends inside a quoted literal that is never  *)
(* closed, and then the ';' left over lies in that literal and q;; gets    *)
(* the verdict of q.                                                       *)
(***************************************************************************)
C4_TrailingSeparatorNormalized ==
    \A c \in Calls :
        (Validated(c) /\ NoTrailingSeparator(c)) =>
            /\ SameAsWithSeparator(c)
            /\ ValidateQuery(calls[c].query \o <<";", ";">>).verdict =
                    IF EndsInsideLiteral(calls[c].query)
                    THEN VerdictOf(c)
                    ELSE "MultipleStatements"

\* An accepted text that ends in white space: dropping the ';' of q; leaves
\* white space that the second strip has to remove.
C4_Witness ==
    \E c \in Calls :
        /\ Validated(c)
        /\ NoTrailingSeparator(c)
        /\ calls[c].executed # <<>>
        /\ endswith(calls[c].query, <<" ">>)
        /\ ~EndsInsideLiteral(calls[c].query)

(***************************************************************************)
(* C5: every connection a call acquires is released before the call ends,  *)
(* on every exit path; the open connections are those of calls in flight,  *)
(* never more than one each, and none is open once every call has ended.   *)
(***************************************************************************)
C5_ConnectionsReleased ==
    /\ openConns = Cardinality({ c \in Calls : calls[c].conn = "open" })
    /\ \A c \in Calls : calls[c].conn = "open" => c \in InFlight
    /\ openConns <= Cardinality(InFlight)
    /\ InFlight = {} => openConns = 0

\* A call ended with an engine error and its connection closed while
\* another call holds its own connection open.
C5_Witness ==
    \E c, d \in Calls :
        /\ c # d
        /\ calls[c].pc = "done"
        /\ calls[c].outcome \in {"ExecutionError", "TableNotFound"}
        /\ calls[c].conn = "closed"
        /\ calls[d].conn = "open"

(***************************************************************************)
(* C6: health_check never raises: it returns a record with the keys        *)
(* status, database and message, status being 'healthy' or 'error', and    *)
(* 'error' whenever acquiring the connection or the test query failed.     *)
(***************************************************************************)
C6_HealthCheckNeverRaises ==
    \A c \in Calls :
        (calls[c].op = "health_check" /\ calls[c].pc = "done") =>
            /\ calls[c].outcome = "returned"
            /\ Len(calls[c].report) = 1
            /\ DOMAIN calls[c].report[1] = {"status", "database", "message"}
            /\ calls[c].report[1].status \in {"healthy", "error"}
            /\ calls[c].failed => calls[c].report[1].status = "error"
            /\ ~calls[c].failed => calls[c].report[1].status = "healthy"

\* health_check ended after the connection could not be acquired.
C6_Witness ==
    \E c \in Calls :
        /\ calls[c].op = "health_check"
        /\ calls[c].pc = "done"
        /\ calls[c].failed
        /\ calls[c].conn = "none"
        /\ ~db.openable

(***************************************************************************)
(* C7: describe_table issues PRAGMA table_info for a name only after the   *)
(* catalog lookup of the same call found that name; a name the lookup did  *)
(* not find ends the call with TableNotFound and no PRAGMA is issued.      *)
(***************************************************************************)
C7_CheckBeforeInterpolation ==
    \A c \in Calls :
        calls[c].op = "describe_table" =>
            /\ \A i \in DOMAIN calls[c].executed :
                    calls[c].executed[i].kind = "table_info" =>
                        /\ calls[c].found = "yes"
                        /\ i > 1
                        /\ calls[c].executed[i - 1] =
                             Statement("catalog_lookup", <<>>, calls[c].table)
            /\ calls[c].found = "no" =>
                    /\ calls[c].pc \in {"release", "done"}
                    /\ \A i \in DOMAIN calls[c].executed :
                            calls[c].executed[i].kind # "table_info"
                    /\ calls[c].pc = "done" => calls[c].outcome = "TableNotFound"

\* describe_table ended on a name that the catalog did not hold.
C7_Witness ==
    \E c \in Calls :
        /\ calls[c].op = "describe_table"
        /\ calls[c].table \notin db.tables
        /\ calls[c].found = "no"
        /\ calls[c].pc = "done"
        /\ calls[c].outcome = "TableNotFound"

(***************************************************************************)
(* C8: every failure the engine reports during read_query, list_tables or  *)
(* describe_table, opening the connection included, reaches the caller as  *)
(* ExecutionError; the caller sees no failure kind but DatabaseMissing,    *)
(* MultipleStatements, UnsupportedStatementType, TableNotFound and         *)
(* ExecutionError.                                                         *)
(***************************************************************************)
C8_EngineFailuresWrapped ==
    \A c \in Calls :
        ( /\ calls[c].op \in {"read_query", "list_tables", "describe_table"}
          /\ calls[c].pc = "done" )
        => /\ calls[c].outcome \in
                {"returned", "DatabaseMissing", "MultipleStatements",
                 "UnsupportedStatementType", "TableNotFound", "ExecutionError"}
           /\ calls[c].failed => calls[c].outcome = "ExecutionError"

(***************************************************************************)
(* C9: read_query tests that the file exists before anything else, so a    *)
(* missing file gives DatabaseMissing whatever the text; validation comes  *)
(* next, and a text it rejects has had no connection acquired and no       *)
(* statement executed.                                                     *)
(***************************************************************************)
C9_OrderOfChecks ==
    \A c \in ReadCalls :
        /\ calls[c].existsSeen = "no" =>
                /\ calls[c].pc = "done"
                /\ calls[c].outcome = "DatabaseMissing"
        /\ calls[c].pc = "validate" =>
                calls[c].existsSeen = "yes" /\ calls[c].conn = "none"
        /\ calls[c].conn # "none" => calls[c].existsSeen = "yes"
        /\ calls[c].outcome \in {"MultipleStatements", "UnsupportedStatementType"} =>
                /\ calls[c].existsSeen = "yes"
                /\ calls[c].conn = "none"
                /\ calls[c].executed = <<>>

\* Both halves at once: one call got DatabaseMissing for a text validation
\* would reject, another was rejected by validation with no connection.
C9_Witness ==
    \E c, d \in ReadCalls :
        /\ calls[c].pc = "done"
        /\ calls[c].outcome = "DatabaseMissing"
        /\ ValidateQuery(calls[c].query).verdict # "accepted"
        /\ calls[d].pc = "done"
        /\ calls[d].outcome = "MultipleStatements"

(***************************************************************************)
(* C10: every column descriptor describe_table returns has exactly the     *)
(* five keys name, type, notnull, dflt_value and pk, every value a string, *)
(* a NULL of the engine rendered as the empty string.                      *)
(***************************************************************************)
C10_FiveStringFields ==
    \A c \in Calls :
        ( /\ calls[c].op = "describe_table"
          /\ calls[c].pc = "done"
          /\ calls[c].outcome = "returned" )
        => \A i \in DOMAIN calls[c].columns :
              /\ DOMAIN calls[c].columns[i] =
                    {"name", "type", "notnull", "dflt_value", "pk"}
              /\ \A key \in DOMAIN calls[c].columns[i] :
                    /\ calls[c].columns[i][key] \in Seq(Quotes \cup {" ", "_"}
                            \cup { LowerChars[k] : k \in DOMAIN LowerChars }
                            \cup { UpperChars[k] : k \in DOMAIN UpperChars }
                            \cup { Digits[k] : k \in DOMAIN Digits })
                    /\ TableInfoRows[i][key] = NullV =>
                            calls[c].columns[i][key] = <<>>

====
